---- MODULE Spec2Model ----
(***************************************************************************)
(* Weather worker (src/src/worker.ts): an HTTP entry point `fetch` and a   *)
(* cron entry point `scheduled` sharing fetchWeatherData,                  *)
(* getCachedWeatherData and setCachedWeatherData over one KV key.          *)
(*                                                                         *)
(* An invocation is a process p.  Its pc names the await it is suspended   *)
(* at; every action runs the code from one await to the next.              *)
(*                                                                         *)
(* JavaScript values.  An optional value (a property that may be missing   *)
(* or undefined) is a sequence of length 0 or 1: undefined is <<>>.        *)
(* Arrays are sequences; JavaScript index k is TLA+ position k + 1.        *)
(* A JSON text is [valid, json]: json is the function from the member      *)
(* names of the object to their values, valid = FALSE is a text that       *)
(* JSON.parse rejects.                                                     *)
(* A time string is [iso, day, hour, minute, secs]: "2025-06-<day>T<hour>: *)
(* <minute>" with an optional ":00" seconds part (secs); iso = FALSE is a  *)
(* string that new Date() cannot parse.  The Workers runtime clock zone is *)
(* UTC, so a zone-less date-time string parses to the same UTC fields.     *)
(***************************************************************************)
EXTENDS Integers, Sequences, FiniteSets, TLC

(* ------------------------------ bounds -------------------------------- *)

\* invocations that may exist at once (isolates)
NumProcs == 2
\* longest hourly array the upstream API returns
MaxLen == 2
\* number of clock steps
MaxTicks == 3

Procs == 1..NumProcs

(* ----------------------------- constants ------------------------------ *)

CACHE_TTL == 4 * 60 * 60

\* one step of the wall clock, in seconds
TickSeconds == 2 * 60 * 60

corsHeaders ==
  [h \in {"Access-Control-Allow-Origin", "Access-Control-Allow-Methods",
          "Access-Control-Max-Age"} |->
     CASE h = "Access-Control-Allow-Origin" -> "*"
       [] h = "Access-Control-Allow-Methods" -> "GET,HEAD,POST,OPTIONS"
       [] OTHER -> "86400"]

(* --------------------------- JavaScript values ------------------------ *)

undefined == <<>>
Def(v) == <<v>>
IsDef(o) == o # <<>>
Val(o) == o[1]

\* the string `<day>T<hour>:00`, the form of an hourly label
Label(d, h) == [iso |-> TRUE, day |-> d, hour |-> h, minute |-> 0, secs |-> FALSE]
InvalidTime == [iso |-> FALSE, day |-> 0, hour |-> 0, minute |-> 0, secs |-> FALSE]

h12 == Label(26, 12)
h13 == Label(26, 13)
\* half past twelve, and twelve written with seconds ("...T12:00:00")
h1230 == [iso |-> TRUE, day |-> 26, hour |-> 12, minute |-> 30, secs |-> FALSE]
h12s == [iso |-> TRUE, day |-> 26, hour |-> 12, minute |-> 0, secs |-> TRUE]

\* the values current_weather.time takes: two labels, a half hour, a label
\* written with seconds, and a string that is no date
CurrentTimes ==
  {h12, h13, h1230, h12s, InvalidTime}

HourlyLabels == {h12, h13}

SeqsUpTo(S, n) == UNION { [1..k -> S] : k \in 0..n }

\* precipitation and cloudcover of the hour at JavaScript index k
PrecipAt(k) == 2 * k
CloudAt(k) == 25 + 10 * k

PrecipArrays == { [i \in 1..n |-> PrecipAt(i - 1)] : n \in 0..MaxLen }
CloudArrays == { [i \in 1..n |-> CloudAt(i - 1)] : n \in 0..MaxLen }

Opt(S) == {undefined} \cup { Def(v) : v \in S }

CurrentWeathers == [temperature : Opt({23}), time : Opt(CurrentTimes)]
Hourlies == [time : Opt(SeqsUpTo(HourlyLabels, MaxLen)),
             precipitation : Opt(PrecipArrays),
             cloudcover : Opt(CloudArrays)]

\* WeatherAPIResponse: every body response.json() can resolve to
WeatherAPIResponse == [current_weather : Opt(CurrentWeathers), hourly : Opt(Hourlies)]

EmptyData == [current_weather |-> undefined, hourly |-> undefined]

\* Array.prototype.findIndex((t) => t === x): first index, or -1
findIndex(arr, x) ==
  IF \E i \in 1..Len(arr) : arr[i] = x
    THEN (CHOOSE i \in 1..Len(arr) : arr[i] = x /\ \A j \in 1..(i - 1) : arr[j] # x) - 1
    ELSE -1

\* arr[index]
At(arr, index) ==
  IF index >= 0 /\ index < Len(arr) THEN Def(arr[index + 1]) ELSE undefined

Fields == {"temperature", "precipitation", "cloudcover", "timestamp", "lastUpdated"}

\* JSON.stringify of an object: members whose value is undefined are left out
JSONstringify(obj) ==
  [valid |-> TRUE,
   json |-> [k \in {f \in DOMAIN obj : IsDef(obj[f])} |-> Val(obj[k])]]

\* JSON.parse of a valid text; a member the text lacks reads as undefined
JSONparse(text) ==
  [k \in Fields |-> IF k \in DOMAIN text.json THEN Def(text.json[k]) ELSE undefined]

NoMembers == [k \in {} |-> 0]
Unreadable == [valid |-> FALSE, json |-> NoMembers]

null == <<>>

(* ------------------------------- Date --------------------------------- *)

\* new Date(s): the UTC fields of the instant, or an invalid date
NewDate(s) ==
  IF IsDef(s) /\ Val(s).iso
    THEN [ok |-> TRUE, day |-> Val(s).day, hour |-> Val(s).hour, minute |-> Val(s).minute]
    ELSE [ok |-> FALSE, day |-> 0, hour |-> 0, minute |-> 0]

getUTCHours(d) == d.hour

\* toISOString().split('T')[0]; toISOString throws RangeError on an invalid date
toISOStringThrows(d) == ~d.ok
toISODate(d) == d.day

(* ------------------------------ Fetcher ------------------------------- *)

\* an upstream outcome: fetch() rejects, the status is not ok, response.json()
\* rejects, or the body parses to data
Upstream(R) ==
  { [status |-> st, data |-> EmptyData] : st \in {"neterr", "notok", "badjson"} }
    \cup { [status |-> "ok", data |-> d] : d \in R }

NoUpstream == [status |-> "none", data |-> EmptyData]

WeatherRecord(temperature, precipitation, cloudcover, timestamp, lastUpdated) ==
  [temperature |-> temperature, precipitation |-> precipitation,
   cloudcover |-> cloudcover, timestamp |-> timestamp, lastUpdated |-> lastUpdated]

\* variant: the index after the selected one
selectIndex_offByOne(hourlyTimes, currentTime) ==
  LET exact == IF IsDef(currentTime) THEN findIndex(hourlyTimes, Val(currentTime)) ELSE -1
  IN  IF exact # -1 THEN exact + 1 ELSE -2

\* variant: the last matching index instead of the first
selectIndex_last(hourlyTimes, currentTime) ==
  LET hits == IF IsDef(currentTime)
                THEN { i \in 1..Len(hourlyTimes) : hourlyTimes[i] = Val(currentTime) }
                ELSE {}
      currentDate == NewDate(currentTime)
      targetTime == Label(toISODate(currentDate), getUTCHours(currentDate))
      sameHour == findIndex(hourlyTimes, targetTime)
  IN  IF hits # {} THEN (CHOOSE i \in hits : \A j \in hits : j <= i) - 1
      ELSE IF toISOStringThrows(currentDate) THEN -2
      ELSE IF sameHour # -1 THEN sameHour
      ELSE 0

\* index selection of src/src/worker.ts: exact match, then the label of the
\* same UTC hour, then index 0.  -2 stands for the RangeError of toISOString.
selectIndex(hourlyTimes, currentTime) ==
  LET exact == IF IsDef(currentTime) THEN findIndex(hourlyTimes, Val(currentTime)) ELSE -1
      currentDate == NewDate(currentTime)
      targetTime == Label(toISODate(currentDate), getUTCHours(currentDate))
      sameHour == findIndex(hourlyTimes, targetTime)
  IN  IF exact # -1 THEN exact
      ELSE IF toISOStringThrows(currentDate) THEN -2
      ELSE IF sameHour # -1 THEN sameHour
      ELSE 0

\* fetchWeatherData of src/src/worker.ts, from the upstream outcome `up` and
\* the wall clock `t` at construction; null when unavailable
fetchWeatherData(up, t) ==
  IF up.status # "ok" THEN null
  ELSE
    LET data == up.data IN
    IF \/ ~IsDef(data.current_weather)
       \/ ~IsDef(data.hourly)
       \/ ~IsDef(Val(data.hourly).precipitation)
       \/ ~IsDef(Val(data.hourly).cloudcover)
       \/ ~IsDef(Val(data.hourly).time)
    THEN null
    ELSE
      LET currentTime == Val(data.current_weather).time
          hourlyTimes == Val(Val(data.hourly).time)
          index == selectIndex(hourlyTimes, currentTime)
          precipitation == At(Val(Val(data.hourly).precipitation), index)
          cloudcover == At(Val(Val(data.hourly).cloudcover), index)
      IN  IF index = -2 THEN null
          ELSE IF precipitation = undefined \/ cloudcover = undefined THEN null
          ELSE Def(WeatherRecord(Val(data.current_weather).temperature,
                                 precipitation, cloudcover, currentTime, Def(t)))

\* fetchWeatherData of the earlier version (src/unnamed/part_000): exact match only
fetchWeatherData_strict(up, t) ==
  IF up.status # "ok" THEN null
  ELSE
    LET data == up.data
        currentTime == IF IsDef(data.current_weather)
                         THEN Val(data.current_weather).time ELSE undefined
        hourlyTimes == IF IsDef(data.hourly) /\ IsDef(Val(data.hourly).time)
                         THEN Val(Val(data.hourly).time) ELSE <<>>
        index == IF IsDef(currentTime) THEN findIndex(hourlyTimes, Val(currentTime)) ELSE -1
    IN
    IF \/ index = -1
       \/ ~IsDef(data.current_weather)
       \/ ~IsDef(Val(data.hourly).precipitation)
       \/ ~IsDef(Val(data.hourly).cloudcover)
    THEN null
    ELSE
      LET precipitation == At(Val(Val(data.hourly).precipitation), index)
          cloudcover == At(Val(Val(data.hourly).cloudcover), index)
      IN  IF precipitation = undefined \/ cloudcover = undefined THEN null
          ELSE Def(WeatherRecord(Val(data.current_weather).temperature,
                                 precipitation, cloudcover, currentTime, Def(t)))

(* --------------------------- Cache Accessor --------------------------- *)

\* the KV namespace under CACHE_KEY: the stored text and the instant it expires
NoEntry == [present |-> FALSE, text |-> Unreadable, exp |-> 0]

\* env.WEATHER_CACHE.get(CACHE_KEY) at time t: the text, or null once expired
KVget(store, t) ==
  IF store.present /\ t < store.exp THEN Def(store.text) ELSE null

\* variant: a put over an existing entry keeps that entry's expiration
KVput_keepExp(store, text, expirationTtl, t) ==
  [present |-> TRUE, text |-> text,
   exp |-> IF store.present THEN store.exp ELSE t + expirationTtl]

\* variant: the put patches the stored object, keeping members it already has
KVput_patch(store, text, expirationTtl, t) ==
  [present |-> TRUE,
   text |-> IF store.present /\ store.text.valid /\ text.valid
              THEN [valid |-> TRUE,
                    json |-> [k \in DOMAIN text.json |->
                                IF k \in DOMAIN store.text.json /\ k # "lastUpdated"
                                  THEN store.text.json[k] ELSE text.json[k]]]
              ELSE text,
   exp |-> t + expirationTtl]

\* env.WEATHER_CACHE.put(CACHE_KEY, text, {expirationTtl}) at time t
KVput(store, text, expirationTtl, t) ==
  [present |-> TRUE, text |-> text, exp |-> t + expirationTtl]

\* a completion of a helper: the value it returns, or threw = TRUE
Returns(v) == [threw |-> FALSE, val |-> v]
Throws == [threw |-> TRUE, val |-> null]

\* variant: a stored record is never used
getCachedWeatherData_refetch(store, getOk, t) == Returns(null)

\* variant: no try/catch around the read and the parse
getCachedWeatherData_nocatch(store, getOk, t) ==
  IF ~getOk THEN Throws
  ELSE LET cached == KVget(store, t) IN
       IF ~IsDef(cached) THEN Returns(null)
       ELSE IF ~Val(cached).valid THEN Throws
       ELSE Returns(Def(JSONparse(Val(cached))))

\* getCachedWeatherData: `getOk` is whether the KV read resolves
getCachedWeatherData(store, getOk, t) ==
  IF ~getOk THEN Returns(null)
  ELSE LET cached == KVget(store, t) IN
       IF ~IsDef(cached) THEN Returns(null)
       ELSE IF ~Val(cached).valid THEN Returns(null)
       ELSE Returns(Def(JSONparse(Val(cached))))

\* variant: the put is never issued
setCachedWeatherData_skip(store, data, putOk, t) ==
  [threw |-> FALSE, store |-> store]

\* variant: a rejected put is rethrown
setCachedWeatherData_rethrow(store, data, putOk, t) ==
  IF putOk
    THEN [threw |-> FALSE, store |-> KVput(store, JSONstringify(data), CACHE_TTL, t)]
    ELSE [threw |-> TRUE, store |-> store]

\* setCachedWeatherData: `putOk` is whether the KV write resolves; the
\* completion carries the store after the call
setCachedWeatherData(store, data, putOk, t) ==
  IF putOk
    THEN [threw |-> FALSE, store |-> KVput(store, JSONstringify(data), CACHE_TTL, t)]
    ELSE [threw |-> FALSE, store |-> store]

(* ------------------------------ Responses ----------------------------- *)

NoBody == [kind |-> "null", text |-> "", json |-> Unreadable]
TextBody(s) == [kind |-> "text", text |-> s, json |-> Unreadable]
JsonBody(j) == [kind |-> "json", text |-> "", json |-> j]

Response(status, body, headers) == [status |-> status, body |-> body, headers |-> headers]

\* variant: the pre-flight answer is 204 No Content
OptionsResponse_204(requestHeaders) ==
  Response(204, NoBody,
           corsHeaders @@ ("Access-Control-Allow-Headers" :>
              (IF IsDef(requestHeaders) THEN Val(requestHeaders) ELSE "")))

\* new Response(null, {headers: {...corsHeaders, Allow-Headers}}): status defaults to 200
OptionsResponse(requestHeaders) ==
  Response(200, NoBody,
           corsHeaders @@ ("Access-Control-Allow-Headers" :>
              (IF IsDef(requestHeaders) THEN Val(requestHeaders) ELSE "")))

\* variant: the 200 response carries Content-Type only
JsonResponse_noCors(data) ==
  Response(200, JsonBody(JSONstringify(data)), ("Content-Type" :> "application/json"))

JsonResponse(data) ==
  Response(200, JsonBody(JSONstringify(data)),
           ("Content-Type" :> "application/json") @@ corsHeaders)

\* variants: unavailable reported as a server error, as a bad gateway
UnavailableResponse_500 ==
  Response(500, TextBody("Unable to fetch weather data"), corsHeaders)

UnavailableResponse_502 ==
  Response(502, TextBody("Unable to fetch weather data"), corsHeaders)

UnavailableResponse ==
  Response(503, TextBody("Unable to fetch weather data"), corsHeaders)

ErrorResponse ==
  Response(500, TextBody("Unexpected error"), corsHeaders)

NoResponse == Response(0, NoBody, corsHeaders)

\* how an invocation ended: a Response returned, or the promise resolved
Pending == [outcome |-> "none", response |-> NoResponse]
Responded(r) == [outcome |-> "response", response |-> r]
Resolved == [outcome |-> "resolved", response |-> NoResponse]

(* ------------------------------- State -------------------------------- *)

VARIABLES
  now,          \* wall clock, seconds
  kv,           \* the KV entry under CACHE_KEY
  pc,           \* per invocation: the await it is suspended at
  request,      \* per invocation: the Request, or the scheduled event
  cacheRead,    \* per invocation: what env.WEATHER_CACHE.get did
  upstream,     \* per invocation: what the upstream call did
  weatherData,  \* per invocation: the local weatherData
  cachePut,     \* per invocation: the argument and outcome of the KV put
  result,       \* per invocation: how it ended
  trace         \* per invocation: its external calls, in order

vars == <<now, kv, pc, request, cacheRead, upstream, weatherData, cachePut, result, trace>>

Methods == {"GET", "POST", "OPTIONS"}
RequestHeaderValues == {undefined, Def("content-type")}

NoRequest == [kind |-> "none", method |-> "", acrh |-> undefined]
ScheduledEvent == [kind |-> "scheduled", method |-> "", acrh |-> undefined]
Request(m, h) == [kind |-> "fetch", method |-> m, acrh |-> h]

NoRead == [outcome |-> "none", text |-> null]
NoPut == [outcome |-> "none", arg |-> null]

\* what the KV read met: a rejected call, no entry, an expired entry, a text
\* that does not parse, or a stored record
ReadOutcome(store, getOk, t) ==
  IF ~getOk THEN [outcome |-> "threw", text |-> null]
  ELSE IF ~store.present THEN [outcome |-> "absent", text |-> null]
  ELSE IF ~(t < store.exp) THEN [outcome |-> "expired", text |-> null]
  ELSE IF ~store.text.valid THEN [outcome |-> "unparsable", text |-> Def(store.text)]
  ELSE [outcome |-> "hit", text |-> Def(store.text)]

Init ==
  /\ now = 0
  /\ kv \in {NoEntry, [present |-> TRUE, text |-> Unreadable, exp |-> CACHE_TTL]}
  /\ pc = [p \in Procs |-> "idle"]
  /\ request = [p \in Procs |-> NoRequest]
  /\ cacheRead = [p \in Procs |-> NoRead]
  /\ upstream = [p \in Procs |-> NoUpstream]
  /\ weatherData = [p \in Procs |-> null]
  /\ cachePut = [p \in Procs |-> NoPut]
  /\ result = [p \in Procs |-> Pending]
  /\ trace = [p \in Procs |-> <<>>]

Finish(p, r) ==
  /\ pc' = [pc EXCEPT ![p] = "done"]
  /\ result' = [result EXCEPT ![p] = r]

(* ------------------------- fetch (HTTP entry) ------------------------- *)

\* lines 142-150: the pre-flight branch returns at once
fetch_options(p) ==
  /\ pc[p] = "idle"
  /\ \E h \in RequestHeaderValues :
       /\ request' = [request EXCEPT ![p] = Request("OPTIONS", h)]
       /\ Finish(p, Responded(OptionsResponse(h)))
  /\ UNCHANGED <<now, kv, cacheRead, upstream, weatherData, cachePut, trace>>

\* lines 152-154: enter the try block and call getCachedWeatherData
fetch_start(p) ==
  /\ pc[p] = "idle"
  /\ \E m \in Methods \ {"OPTIONS"} :
       request' = [request EXCEPT ![p] = Request(m, undefined)]
  /\ pc' = [pc EXCEPT ![p] = "getCached"]
  /\ UNCHANGED <<now, kv, cacheRead, upstream, weatherData, cachePut, result, trace>>

\* lines 154-159, 172-185: the KV read settles; a hit is answered, a miss
\* calls fetchWeatherData
fetch_getCached(p) ==
  /\ pc[p] = "getCached"
  /\ \E getOk \in BOOLEAN :
       LET c == getCachedWeatherData(kv, getOk, now) IN
       /\ cacheRead' = [cacheRead EXCEPT ![p] = ReadOutcome(kv, getOk, now)]
       /\ trace' = [trace EXCEPT ![p] = Append(@, "get")]
       /\ IF c.threw
            THEN /\ Finish(p, Responded(ErrorResponse))
                 /\ UNCHANGED weatherData
            ELSE IF IsDef(c.val)
              THEN /\ weatherData' = [weatherData EXCEPT ![p] = c.val]
                   /\ Finish(p, Responded(JsonResponse(Val(c.val))))
              ELSE /\ pc' = [pc EXCEPT ![p] = "fetchWeatherData"]
                   /\ UNCHANGED <<weatherData, result>>
  /\ UNCHANGED <<now, kv, request, upstream, cachePut>>

\* variant: the record is answered without awaiting setCachedWeatherData
fetch_fetchWeatherData_noAwait(p, R) ==
  /\ pc[p] = "fetchWeatherData"
  /\ request[p].kind = "fetch"
  /\ \E up \in Upstream(R) :
       LET data == fetchWeatherData(up, now) IN
       /\ upstream' = [upstream EXCEPT ![p] = up]
       /\ trace' = [trace EXCEPT ![p] = Append(@, "fetch")]
       /\ weatherData' = [weatherData EXCEPT ![p] = data]
       /\ IF ~IsDef(data)
            THEN Finish(p, Responded(UnavailableResponse))
            ELSE Finish(p, Responded(JsonResponse(Val(data))))
  /\ UNCHANGED <<now, kv, request, cacheRead, cachePut>>

\* lines 159-169: fetchWeatherData settles; unavailable is answered 503, a
\* record is handed to setCachedWeatherData
fetch_fetchWeatherData(p, R) ==
  /\ pc[p] = "fetchWeatherData"
  /\ request[p].kind = "fetch"
  /\ \E up \in Upstream(R) :
       LET data == fetchWeatherData(up, now) IN
       /\ upstream' = [upstream EXCEPT ![p] = up]
       /\ trace' = [trace EXCEPT ![p] = Append(@, "fetch")]
       /\ weatherData' = [weatherData EXCEPT ![p] = data]
       /\ IF ~IsDef(data)
            THEN Finish(p, Responded(UnavailableResponse))
            ELSE /\ pc' = [pc EXCEPT ![p] = "setCached"]
                 /\ UNCHANGED result
  /\ UNCHANGED <<now, kv, request, cacheRead, cachePut>>

\* lines 169-185: the KV put settles and the record is answered
fetch_setCached(p) ==
  /\ pc[p] = "setCached"
  /\ request[p].kind = "fetch"
  /\ \E putOk \in BOOLEAN :
       LET c == setCachedWeatherData(kv, Val(weatherData[p]), putOk, now) IN
       /\ kv' = c.store
       /\ cachePut' = [cachePut EXCEPT ![p] =
            [outcome |-> IF putOk THEN "ok" ELSE "threw", arg |-> weatherData[p]]]
       /\ trace' = [trace EXCEPT ![p] = Append(@, "put")]
       /\ IF c.threw
            THEN Finish(p, Responded(ErrorResponse))
            ELSE Finish(p, Responded(JsonResponse(Val(weatherData[p]))))
  /\ UNCHANGED <<now, request, cacheRead, upstream, weatherData>>

(* ----------------------- scheduled (cron entry) ----------------------- *)

\* lines 193-196: enter the try block and call fetchWeatherData
scheduled_start(p) ==
  /\ pc[p] = "idle"
  /\ request' = [request EXCEPT ![p] = ScheduledEvent]
  /\ pc' = [pc EXCEPT ![p] = "fetchWeatherData"]
  /\ UNCHANGED <<now, kv, cacheRead, upstream, weatherData, cachePut, result, trace>>

\* variant: an unavailable Fetcher is called again
scheduled_fetchWeatherData_retry(p, R) ==
  /\ pc[p] = "fetchWeatherData"
  /\ request[p].kind = "scheduled"
  /\ \E up \in Upstream(R) :
       LET data == fetchWeatherData(up, now) IN
       /\ upstream' = [upstream EXCEPT ![p] = up]
       /\ trace' = [trace EXCEPT ![p] = Append(@, "fetch")]
       /\ weatherData' = [weatherData EXCEPT ![p] = data]
       /\ pc' = [pc EXCEPT ![p] = IF IsDef(data) THEN "setCached" ELSE "fetchWeatherData"]
       /\ UNCHANGED result
  /\ UNCHANGED <<now, kv, request, cacheRead, cachePut>>

\* variant: an unavailable Fetcher evicts the stored record
scheduled_fetchWeatherData_evict(p, R) ==
  /\ pc[p] = "fetchWeatherData"
  /\ request[p].kind = "scheduled"
  /\ \E up \in Upstream(R) :
       LET data == fetchWeatherData(up, now) IN
       /\ upstream' = [upstream EXCEPT ![p] = up]
       /\ trace' = [trace EXCEPT ![p] = Append(@, "fetch")]
       /\ weatherData' = [weatherData EXCEPT ![p] = data]
       /\ IF ~IsDef(data)
            THEN /\ Finish(p, Resolved)
                 /\ kv' = NoEntry
            ELSE /\ pc' = [pc EXCEPT ![p] = "setCached"]
                 /\ UNCHANGED <<result, kv>>
  /\ UNCHANGED <<now, request, cacheRead, cachePut>>

\* lines 196-206: fetchWeatherData settles
scheduled_fetchWeatherData(p, R) ==
  /\ pc[p] = "fetchWeatherData"
  /\ request[p].kind = "scheduled"
  /\ \E up \in Upstream(R) :
       LET data == fetchWeatherData(up, now) IN
       /\ upstream' = [upstream EXCEPT ![p] = up]
       /\ trace' = [trace EXCEPT ![p] = Append(@, "fetch")]
       /\ weatherData' = [weatherData EXCEPT ![p] = data]
       /\ IF ~IsDef(data)
            THEN Finish(p, Resolved)
            ELSE /\ pc' = [pc EXCEPT ![p] = "setCached"]
                 /\ UNCHANGED result
  /\ UNCHANGED <<now, kv, request, cacheRead, cachePut>>

\* lines 199-210: the KV put settles
scheduled_setCached(p) ==
  /\ pc[p] = "setCached"
  /\ request[p].kind = "scheduled"
  /\ \E putOk \in BOOLEAN :
       LET c == setCachedWeatherData(kv, Val(weatherData[p]), putOk, now) IN
       /\ kv' = c.store
       /\ cachePut' = [cachePut EXCEPT ![p] =
            [outcome |-> IF putOk THEN "ok" ELSE "threw", arg |-> weatherData[p]]]
       /\ trace' = [trace EXCEPT ![p] = Append(@, "put")]
       /\ IF c.threw
            THEN Finish(p, Resolved)  \* lines 207-210: logged, not rethrown
            ELSE Finish(p, Resolved)
  /\ UNCHANGED <<now, request, cacheRead, upstream, weatherData>>

(* ---------------------------- environment ----------------------------- *)

\* the runtime takes the result; the isolate slot is free again
Return(p) ==
  /\ pc[p] = "done"
  /\ pc' = [pc EXCEPT ![p] = "idle"]
  /\ request' = [request EXCEPT ![p] = NoRequest]
  /\ cacheRead' = [cacheRead EXCEPT ![p] = NoRead]
  /\ upstream' = [upstream EXCEPT ![p] = NoUpstream]
  /\ weatherData' = [weatherData EXCEPT ![p] = null]
  /\ cachePut' = [cachePut EXCEPT ![p] = NoPut]
  /\ result' = [result EXCEPT ![p] = Pending]
  /\ trace' = [trace EXCEPT ![p] = <<>>]
  /\ UNCHANGED <<now, kv>>

Tick ==
  /\ now < MaxTicks * TickSeconds
  /\ now' = now + TickSeconds
  /\ UNCHANGED <<kv, pc, request, cacheRead, upstream, weatherData, cachePut, result, trace>>

Quiet == \A q \in Procs : pc[q] = "idle"

\* the upstream bodies the life-cycle specification draws from: the hourly
\* part missing or complete, the current weather with and without a
\* temperature, at a time that is a label or half past a label
SampleResponses ==
  LET complete == [time |-> Def(<<h12, h13>>),
                   precipitation |-> Def([i \in 1..MaxLen |-> PrecipAt(i - 1)]),
                   cloudcover |-> Def([i \in 1..MaxLen |-> CloudAt(i - 1)])]
  IN  { [current_weather |-> Def([temperature |-> temp, time |-> Def(time)]),
         hourly |-> hourly] :
          temp \in Opt({23}), time \in {h13, h1230},
          hourly \in {undefined, Def(complete)} }

\* invocations one after another, the cache carried from one to the next
Next ==
  \/ Tick
  \/ \E p \in Procs :
       \/ Quiet /\ fetch_options(p)
       \/ Quiet /\ fetch_start(p)
       \/ fetch_getCached(p)
       \/ fetch_fetchWeatherData(p, SampleResponses)
       \/ fetch_setCached(p)
       \/ Quiet /\ scheduled_start(p)
       \/ scheduled_fetchWeatherData(p, SampleResponses)
       \/ scheduled_setCached(p)
       \/ Return(p)

Spec == Init /\ [][Next]_vars

\* one invocation from the initial cache, over every upstream body
NextAllBodies ==
  \/ Tick
  \/ \E p \in Procs :
       \/ Quiet /\ fetch_options(p)
       \/ Quiet /\ fetch_start(p)
       \/ fetch_getCached(p)
       \/ fetch_fetchWeatherData(p, WeatherAPIResponse)
       \/ fetch_setCached(p)
       \/ Quiet /\ scheduled_start(p)
       \/ scheduled_fetchWeatherData(p, WeatherAPIResponse)
       \/ scheduled_setCached(p)

SpecAllBodies == Init /\ [][NextAllBodies]_vars

\* the upstream bodies of the overlapping specification: two complete bodies
\* whose records differ in precipitation, cloudcover and timestamp
ConcResponses ==
  { d \in SampleResponses :
      IsDef(d.hourly) /\ IsDef(Val(d.current_weather).temperature) }

\* invocations that overlap: every slot runs one invocation, in any
\* interleaving.  The cache starts empty, requests are GET, the KV read and
\* the upstream call succeed; the KV put may fail.
InitConc == Init /\ kv = NoEntry

NextConc ==
  \/ Tick
  \/ \E p \in Procs :
       \/ fetch_start(p) /\ request'[p].method = "GET"
       \/ fetch_getCached(p) /\ cacheRead'[p].outcome # "threw"
       \/ fetch_fetchWeatherData(p, ConcResponses) /\ upstream'[p].status = "ok"
       \/ fetch_setCached(p)
       \/ scheduled_start(p)
       \/ scheduled_fetchWeatherData(p, ConcResponses) /\ upstream'[p].status = "ok"
       \/ scheduled_setCached(p)

SpecConc == InitConc /\ [][NextConc]_vars

(* ============================== Properties ============================ *)

Done(p) == pc[p] = "done"
IsRequest(p) == request[p].kind = "fetch" /\ request[p].method # "OPTIONS"
IsTimer(p) == request[p].kind = "scheduled"
Missed(p) == cacheRead[p].outcome \in {"absent", "expired"}
Status(p) == result[p].response.status
Body(p) == result[p].response.body

\* C1: a non-OPTIONS request whose cache read yields a stored, unexpired
\* record is answered 200 with a body equal to the stored text, and makes no
\* upstream call and no cache write.
C1_CacheHitServed ==
  \A p \in Procs :
    (IsRequest(p) /\ cacheRead[p].outcome = "hit") =>
      /\ Done(p)
      /\ result[p].outcome = "response"
      /\ Status(p) = 200
      /\ Body(p) = JsonBody(Val(cacheRead[p].text))
      /\ trace[p] = <<"get">>
      /\ upstream[p] = NoUpstream
      /\ cachePut[p] = NoPut

C1_Witness ==
  \E p \in Procs :
    /\ Done(p) /\ IsRequest(p) /\ cacheRead[p].outcome = "hit"
    /\ Status(p) = 200
    /\ DOMAIN Body(p).json.json = Fields

\* the upstream body d has every part and its hourly time array holds the
\* current-weather time, first at JavaScript index i, where both hourly
\* values exist
MatchesAt(d, i) ==
  /\ IsDef(d.current_weather) /\ IsDef(d.hourly)
  /\ IsDef(Val(d.current_weather).time)
  /\ IsDef(Val(d.hourly).time)
  /\ IsDef(Val(d.hourly).precipitation)
  /\ IsDef(Val(d.hourly).cloudcover)
  /\ i + 1 \in 1..Len(Val(Val(d.hourly).time))
  /\ Val(Val(d.hourly).time)[i + 1] = Val(Val(d.current_weather).time)
  /\ \A j \in 1..i : Val(Val(d.hourly).time)[j] # Val(Val(d.current_weather).time)
  /\ i < Len(Val(Val(d.hourly).precipitation))
  /\ i < Len(Val(Val(d.hourly).cloudcover))

\* C2: on a cache miss with a successful upstream body that holds the
\* current-weather time at index i, the answer is 200 with temperature and
\* timestamp of the current weather, precipitation[i] and cloudcover[i], and
\* the cache write is invoked exactly once, with the record that is returned.
C2_FreshRecordFromMatchingIndex ==
  \A p \in Procs : \A i \in 0..MaxLen :
    (Done(p) /\ IsRequest(p) /\ Missed(p)
       /\ upstream[p].status = "ok" /\ MatchesAt(upstream[p].data, i)) =>
      LET d == upstream[p].data
          expected ==
            WeatherRecord(Val(d.current_weather).temperature,
                          Def(Val(Val(d.hourly).precipitation)[i + 1]),
                          Def(Val(Val(d.hourly).cloudcover)[i + 1]),
                          Val(d.current_weather).time,
                          Val(weatherData[p]).lastUpdated)
      IN  /\ IsDef(weatherData[p])
          /\ result[p].outcome = "response"
          /\ Status(p) = 200
          /\ Body(p) = JsonBody(JSONstringify(expected))
          /\ trace[p] = <<"get", "fetch", "put">>
          /\ cachePut[p].arg = Def(expected)

C2_Witness ==
  \E p \in Procs :
    /\ Done(p) /\ IsRequest(p) /\ Missed(p)
    /\ upstream[p].status = "ok" /\ MatchesAt(upstream[p].data, 1)
    /\ Body(p).kind = "json"
    /\ Body(p).json.json.precipitation = PrecipAt(1)
    /\ Body(p).json.json.cloudcover = CloudAt(1)
    /\ Body(p).json.json.timestamp = h13
    /\ Len(Val(Val(upstream[p].data.hourly).time)) = MaxLen

\* C3: on a cache miss where the upstream call fails or answers a non-success
\* status, the answer is 503 with the fixed body, and no cache write is made.
C3_UpstreamFailureIs503 ==
  \A p \in Procs :
    (Done(p) /\ IsRequest(p) /\ Missed(p)
       /\ upstream[p].status \in {"neterr", "notok"}) =>
      /\ result[p].outcome = "response"
      /\ Status(p) = 503
      /\ Body(p) = TextBody("Unable to fetch weather data")
      /\ trace[p] = <<"get", "fetch">>
      /\ cachePut[p] = NoPut

C3_Witness ==
  \E p \in Procs :
    /\ Done(p) /\ IsRequest(p) /\ cacheRead[p].outcome = "absent"
    /\ upstream[p].status = "notok"
    /\ Status(p) = 503

\* C4: a timer invocation calls the Fetcher without reading the cache, and
\* when the Fetcher returns a record it writes that record exactly once,
\* whatever the cache held.
C4_TimerFetchesThenWritesOnce ==
  \A p \in Procs :
    IsTimer(p) =>
      /\ cacheRead[p] = NoRead
      /\ pc[p] = "fetchWeatherData" => trace[p] = <<>>
      /\ pc[p] = "setCached" => (trace[p] = <<"fetch">> /\ IsDef(weatherData[p]))
      /\ Done(p) =>
           IF IsDef(weatherData[p])
             THEN /\ trace[p] = <<"fetch", "put">>
                  /\ cachePut[p].arg = weatherData[p]
                  /\ cachePut[p].outcome = "ok" =>
                       (kv.present /\ kv.text = JSONstringify(Val(weatherData[p])))
             ELSE /\ trace[p] = <<"fetch">>
                  /\ cachePut[p] = NoPut

\* a timer run, after the clock has advanced, whose record is now the stored one
C4_Witness ==
  \E p \in Procs :
    /\ Done(p) /\ IsTimer(p)
    /\ cachePut[p].outcome = "ok"
    /\ kv.text = JSONstringify(Val(weatherData[p]))
    /\ Val(weatherData[p]).lastUpdated # Def(0)

\* C5: an OPTIONS request is answered 200 with no body and
\* Access-Control-Allow-Origin: *, and makes no cache read, upstream call or
\* cache write.
C5_PreflightTouchesNothing ==
  \A p \in Procs :
    (request[p].kind = "fetch" /\ request[p].method = "OPTIONS") =>
      /\ Done(p)
      /\ result[p].outcome = "response"
      /\ Status(p) = 200
      /\ Body(p) = NoBody
      /\ result[p].response.headers["Access-Control-Allow-Origin"] = "*"
      /\ trace[p] = <<>>
      /\ cacheRead[p] = NoRead /\ upstream[p] = NoUpstream /\ cachePut[p] = NoPut

\* a pre-flight answered while the cache holds a stored record
C5_Witness ==
  \E p \in Procs :
    /\ Done(p) /\ request[p].method = "OPTIONS"
    /\ Status(p) = 200
    /\ kv.present /\ kv.text.valid

\* C6: when the cache write throws after a successful fetch, the request is
\* still answered 200 with the fresh record, as when the write succeeds; in
\* the timer the failure is swallowed and the invocation resolves.
C6_WriteFailureSwallowed ==
  \A p \in Procs :
    (Done(p) /\ cachePut[p].outcome \in {"ok", "threw"}) =>
      IF IsTimer(p)
        THEN result[p] = Resolved
        ELSE /\ result[p].outcome = "response"
             /\ Status(p) = 200
             /\ Body(p) = JsonBody(JSONstringify(Val(cachePut[p].arg)))
             /\ result[p].response.headers["Content-Type"] = "application/json"

C6_Witness ==
  /\ \E p \in Procs :
       /\ Done(p) /\ IsRequest(p) /\ cachePut[p].outcome = "threw"
       /\ Status(p) = 200
       /\ ~kv.present

\* the hourly time array of d holds a label string-equal to the current-weather time
HasExactMatch(d) ==
  /\ IsDef(d.current_weather) /\ IsDef(d.hourly)
  /\ IsDef(Val(d.current_weather).time)
  /\ IsDef(Val(d.hourly).time)
  /\ \E i \in 1..Len(Val(Val(d.hourly).time)) :
       Val(Val(d.hourly).time)[i] = Val(Val(d.current_weather).time)

\* C7 (as claimed): whenever the current-weather time is string-equal to no
\* hourly label, the Fetcher returns no record, so a cache-miss request is
\* answered 503 and nothing is written.
C7_NoExactMatchIsUnavailable ==
  \A p \in Procs :
    (upstream[p].status = "ok" /\ ~HasExactMatch(upstream[p].data)) =>
      /\ weatherData[p] = null
      /\ cachePut[p] = NoPut
      /\ (Done(p) /\ IsRequest(p)) => Status(p) = 503

Complete(obj) == \A f \in Fields : IsDef(obj[f])

\* C8 (as claimed): every record written to the cache or returned as a 200
\* JSON body has all five fields defined, and the Fetcher returns no partial
\* record.
C8_RecordsHaveFiveFields ==
  /\ (kv.present /\ kv.text.valid) => DOMAIN kv.text.json = Fields
  /\ \A p \in Procs :
       /\ (upstream[p].status = "ok" /\ IsDef(weatherData[p])) => Complete(Val(weatherData[p]))
       /\ IsDef(cachePut[p].arg) => Complete(Val(cachePut[p].arg))
       /\ (Done(p) /\ Body(p).kind = "json") => DOMAIN Body(p).json.json = Fields

\* C9: a cache read that throws, or a stored text that does not parse, is
\* handled like an absent entry: the Fetcher is called and the answer is 200
\* with the fresh record or 503, never 500.
C9_CacheErrorIsAMiss ==
  \A p \in Procs :
    (IsRequest(p) /\ cacheRead[p].outcome \in {"threw", "unparsable"}) =>
      /\ pc[p] \in {"fetchWeatherData", "setCached", "done"}
      /\ pc[p] = "fetchWeatherData" => (trace[p] = <<"get">> /\ result[p] = Pending)
      /\ pc[p] # "fetchWeatherData" =>
           (Len(trace[p]) >= 2 /\ trace[p][1] = "get" /\ trace[p][2] = "fetch")
      /\ Done(p) =>
           /\ result[p].outcome = "response"
           /\ IF IsDef(weatherData[p])
                THEN /\ Status(p) = 200
                     /\ Body(p) = JsonBody(JSONstringify(Val(weatherData[p])))
                     /\ upstream[p].status = "ok"
                     /\ cachePut[p].arg = weatherData[p]
                ELSE /\ Status(p) = 503
                     /\ Body(p) = TextBody("Unable to fetch weather data")

\* a request that read a text that does not parse and answered a fresh record
C9_Witness ==
  \E p \in Procs :
    /\ Done(p) /\ IsRequest(p) /\ cacheRead[p].outcome = "unparsable"
    /\ Status(p) = 200 /\ Body(p).kind = "json"

\* C10: no exception leaves an entry point: under every combination of
\* failures a request ends with exactly one Response of status 200, 503 or
\* 500, and a timer invocation resolves.
C10_NothingEscapes ==
  \A p \in Procs :
    /\ ~Done(p) => result[p] = Pending
    /\ Done(p) =>
         IF IsTimer(p)
           THEN result[p] = Resolved
           ELSE /\ result[p].outcome = "response"
                /\ Status(p) \in {200, 503, 500}

\* a request that met a failed cache read and a failed cache write
C10_Witness ==
  \E p \in Procs :
    /\ Done(p) /\ IsRequest(p)
    /\ cacheRead[p].outcome = "threw"
    /\ cachePut[p].outcome = "threw"
    /\ result[p].outcome = "response"


HasCors(r) ==
  /\ {"Access-Control-Allow-Origin", "Access-Control-Allow-Methods",
      "Access-Control-Max-Age"} \subseteq DOMAIN r.headers
  /\ r.headers["Access-Control-Allow-Origin"] = "*"
  /\ r.headers["Access-Control-Allow-Methods"] = "GET,HEAD,POST,OPTIONS"
  /\ r.headers["Access-Control-Max-Age"] = "86400"

\* C11: every response of the Request Handler, on every branch, carries
\* Access-Control-Allow-Origin: *, Access-Control-Allow-Methods:
\* GET,HEAD,POST,OPTIONS and Access-Control-Max-Age: 86400.  The 500 branch
\* is not reached by any failure of the helpers, so the response its catch
\* builds is checked as a value.
C11_EveryResponseHasCors ==
  /\ \A p \in Procs :
       (Done(p) /\ request[p].kind = "fetch") =>
         (result[p].outcome = "response" /\ HasCors(result[p].response))
  /\ HasCors(ErrorResponse)

\* a 200 answered from the cache, with the three headers
C11_Witness ==
  \E p \in Procs :
    /\ Done(p) /\ IsRequest(p) /\ cacheRead[p].outcome = "hit"
    /\ Status(p) = 200 /\ HasCors(result[p].response)

\* C12 (as claimed): every record the Request Handler returns is at most
\* 14,400 seconds old when the response is returned, its age counted from
\* the record's lastUpdated.
C12_ReturnedRecordAtMostFourHoursOld ==
  [][\A p \in Procs :
       (/\ pc[p] # "done" /\ pc'[p] = "done"
        /\ request'[p].kind = "fetch"
        /\ result'[p].response.status = 200
        /\ result'[p].response.body.kind = "json") =>
         now' - Val(Val(weatherData'[p]).lastUpdated) <= 14400]_vars

\* the put of invocation p completes in this step
PutCompletes(p) == pc[p] = "setCached" /\ pc'[p] = "done"

\* the text t is the whole record of one completed write
WrittenWhole(t) ==
  \E q \in Procs :
    cachePut[q].outcome = "ok" /\ t = JSONstringify(Val(cachePut[q].arg))

\* the record r is what the Fetcher makes of the one upstream answer of p
FetchedWhole(p, r) ==
  /\ IsDef(r)
  /\ Val(Val(r).lastUpdated) <= now
  /\ r = fetchWeatherData(upstream[p], Val(Val(r).lastUpdated))

WholeRecords ==
  /\ kv.present => WrittenWhole(kv.text)
  /\ \A p \in Procs :
       (Done(p) /\ request[p].kind = "fetch" /\ Status(p) = 200 /\ Body(p).kind = "json") =>
         IF cacheRead[p].outcome = "hit"
           THEN /\ Body(p).json = Val(cacheRead[p].text)
                /\ WrittenWhole(Body(p).json)
           ELSE /\ Body(p).json = JSONstringify(Val(weatherData[p]))
                /\ IsDef(weatherData[p])
                /\ FetchedWhole(p, weatherData[p])

\* C13: under every interleaving the cache key holds nothing or the whole
\* record of the most recently completed write, and every 200 body is one
\* whole record, of a single fetch or of a single cache read.
C13_LastWriterWinsWhole ==
  [][/\ \A p \in Procs :
          (PutCompletes(p) /\ cachePut'[p].outcome = "ok") =>
            kv' = [present |-> TRUE,
                   text |-> JSONstringify(Val(weatherData[p])),
                   exp |-> now + 14400]
     /\ kv' # kv =>
          \E p \in Procs : PutCompletes(p) /\ cachePut'[p].outcome = "ok"
     /\ WholeRecords']_vars

\* two overlapping invocations both completed a write; the cache holds the
\* record of the later write, which is the one fetched earlier
C13_Witness ==
  \E p, q \in Procs :
    /\ p # q
    /\ cachePut[p].outcome = "ok" /\ cachePut[q].outcome = "ok"
    /\ Val(cachePut[q].arg).precipitation # Val(cachePut[p].arg).precipitation
    /\ Val(Val(cachePut[q].arg).lastUpdated) < Val(Val(cachePut[p].arg).lastUpdated)
    /\ kv.text = JSONstringify(Val(cachePut[q].arg))

\* C14 (as claimed): in every record the Fetcher produces, timestamp is the
\* hourly time label at the index its precipitation and cloudcover were read
\* from.
C14_TimestampIsLabelOfIndex ==
  \A p \in Procs :
    (upstream[p].status = "ok" /\ IsDef(weatherData[p])) =>
      LET hourly == Val(upstream[p].data.hourly)
          rec == Val(weatherData[p])
      IN  \E i \in 1..Len(Val(hourly.time)) :
            /\ At(Val(hourly.precipitation), i - 1) = rec.precipitation
            /\ At(Val(hourly.cloudcover), i - 1) = rec.cloudcover
            /\ Def(Val(hourly.time)[i]) = rec.timestamp

\* the cache read of invocation q settles in this step
ReadSettles(q) == pc[q] = "getCached" /\ pc'[q] # "getCached"

\* C15: on a cache miss with a successful fetch the cache write has completed
\* (succeeded or failed) when the response is returned, so a later request
\* that reads within the expiration window, after a successful write and with
\* no other write in between, is served the same record from the cache
\* without an upstream call.
C15_WriteCompletesBeforeResponse ==
  [][/\ \A p \in Procs :
          (Done(p)' /\ IsRequest(p)' /\ upstream'[p].status = "ok" /\ IsDef(weatherData'[p])) =>
            /\ cachePut'[p].outcome \in {"ok", "threw"}
            /\ trace'[p] = <<"get", "fetch", "put">>
     /\ \A p, q \in Procs :
          (/\ p # q
           /\ Done(p) /\ IsRequest(p) /\ Status(p) = 200
           /\ cachePut[p].outcome = "ok"
           /\ kv.present /\ kv.text = JSONstringify(Val(cachePut[p].arg))
           /\ ReadSettles(q)
           /\ now < kv.exp
           /\ cacheRead'[q].outcome # "threw") =>
            /\ Done(q)'
            /\ result'[q].outcome = "response"
            /\ result'[q].response.status = 200
            /\ result'[q].response.body = Body(p)
            /\ trace'[q] = <<"get">>
            /\ upstream'[q] = NoUpstream]_vars

\* a request served from the cache the record another request had fetched,
\* written and answered
C15_Witness ==
  \E p, q \in Procs :
    /\ p # q
    /\ Done(p) /\ IsRequest(p) /\ cachePut[p].outcome = "ok"
    /\ Done(q) /\ IsRequest(q) /\ cacheRead[q].outcome = "hit"
    /\ Body(q) = Body(p)
    /\ Body(q).json = JSONstringify(Val(cachePut[p].arg))
    /\ trace[q] = <<"get">>

IsPrefix(s, t) == Len(s) <= Len(t) /\ \A i \in 1..Len(s) : s[i] = t[i]

\* C16: nothing is retried within an invocation: a request makes at most one
\* cache read, then at most one upstream call, then at most one cache write;
\* a timer makes no cache read, exactly one upstream call and at most one
\* cache write; a cache write follows a record returned by the Fetcher in the
\* same invocation.
C16_NoRetryInOrder ==
  \A p \in Procs :
    /\ request[p].kind = "fetch" => IsPrefix(trace[p], <<"get", "fetch", "put">>)
    /\ IsTimer(p) =>
         /\ IsPrefix(trace[p], <<"fetch", "put">>)
         /\ cacheRead[p] = NoRead
         /\ Done(p) => (Len(trace[p]) >= 1 /\ trace[p][1] = "fetch")
    /\ request[p].kind = "none" => trace[p] = <<>>
    /\ (Len(trace[p]) >= 1 /\ trace[p][Len(trace[p])] = "put") =>
         /\ upstream[p].status = "ok"
         /\ IsDef(weatherData[p])
         /\ cachePut[p].arg = weatherData[p]
    /\ cachePut[p] # NoPut => trace[p][Len(trace[p])] = "put"

\* a request that made the three calls, once each
C16_Witness ==
  \E p \in Procs :
    /\ Done(p) /\ IsRequest(p)
    /\ trace[p] = <<"get", "fetch", "put">>
    /\ upstream[p].status = "ok"

\* C17: when the Fetcher signals unavailable during a timer invocation, the
\* step leaves the stored entry and its expiration as they were and ends the
\* invocation; an invocation ended this way made one upstream call and no
\* cache write.
C17_UnavailableTimerLeavesCache ==
  [][\A p \in Procs :
       /\ (IsTimer(p) /\ pc[p] = "fetchWeatherData" /\ pc'[p] # pc[p]
             /\ ~IsDef(weatherData'[p])) =>
            /\ kv' = kv
            /\ pc'[p] = "done"
            /\ trace'[p] = <<"fetch">>
       /\ (IsTimer(p) /\ Done(p) /\ ~IsDef(weatherData[p])) =>
            /\ trace[p] = <<"fetch">>
            /\ cachePut[p] = NoPut]_vars

\* a timer whose Fetcher was unavailable ended while a record was stored
C17_Witness ==
  \E p \in Procs :
    /\ IsTimer(p) /\ Done(p)
    /\ ~IsDef(weatherData[p])
    /\ trace[p] = <<"fetch">>
    /\ kv.present /\ kv.text.valid

\* lastUpdated of the record stored under the cache key
StoredLastUpdated(store) == Val(JSONparse(store.text).lastUpdated)

\* the store holds a record
HoldsRecord(store) ==
  store.present /\ store.text.valid /\ IsDef(JSONparse(store.text).lastUpdated)

\* C18 (as claimed): under every interleaving, lastUpdated of the stored
\* record never decreases from one completed write to the next.
C18_LastUpdatedNeverDecreases ==
  [][(HoldsRecord(kv) /\ HoldsRecord(kv')) =>
       StoredLastUpdated(kv') >= StoredLastUpdated(kv)]_vars

\* C18 (amended): a completed write stores the writer's record and restarts
\* the expiration at the time of the write; lastUpdated of the stored record
\* does not decrease when the writer fetched its record no earlier than the
\* previous write completed. (Writers that overlap are ordered by their
\* writes, not by their fetches.)
C18_LastUpdatedOrderedByWrites ==
  [][\A p \in Procs :
       (PutCompletes(p) /\ cachePut'[p].outcome = "ok") =>
         /\ HoldsRecord(kv')
         /\ StoredLastUpdated(kv') = Val(Val(weatherData[p]).lastUpdated)
         /\ kv'.exp = now + CACHE_TTL
         /\ (HoldsRecord(kv) /\ StoredLastUpdated(kv') >= kv.exp - CACHE_TTL) =>
              StoredLastUpdated(kv') >= StoredLastUpdated(kv)]_vars

\* two invocations wrote one after the other: the later one fetched at the
\* time of its write, after the earlier one's fetch, and its record is stored
C18_Witness ==
  \E p, q \in Procs :
    /\ p # q
    /\ cachePut[p].outcome = "ok" /\ cachePut[q].outcome = "ok"
    /\ HoldsRecord(kv)
    /\ kv.text = JSONstringify(Val(cachePut[q].arg))
    /\ kv.exp = StoredLastUpdated(kv) + CACHE_TTL
    /\ Val(Val(cachePut[p].arg).lastUpdated) < StoredLastUpdated(kv)

\* a required part of the body is absent
PartAbsent(d) ==
  \/ ~IsDef(d.current_weather)
  \/ ~IsDef(d.hourly)
  \/ ~IsDef(Val(d.hourly).time)
  \/ ~IsDef(Val(d.hourly).precipitation)
  \/ ~IsDef(Val(d.hourly).cloudcover)

\* both unavailable, or records that agree on everything but lastUpdated
SameOutcome(a, b) ==
  /\ IsDef(a) <=> IsDef(b)
  /\ IsDef(a) =>
       \A f \in {"temperature", "precipitation", "cloudcover", "timestamp"} :
         Val(a)[f] = Val(b)[f]

\* C19: the Fetcher of src/src/worker.ts and the earlier Fetcher of
\* src/unnamed/part_000 give the same outcome for every upstream response
\* whose hourly time array holds the current-weather time or that lacks a
\* required part; they differ only when all parts are present and no label
\* equals the current-weather time.
C19_FetchersAgreeOutsideFallback ==
  \A p \in Procs :
    upstream[p].status # "none" =>
      LET d == upstream[p].data
          earlier == fetchWeatherData_strict(upstream[p], 0)
      IN  /\ (upstream[p].status # "ok" \/ HasExactMatch(d) \/ PartAbsent(d)) =>
               SameOutcome(weatherData[p], earlier)
          /\ ~SameOutcome(weatherData[p], earlier) =>
               (upstream[p].status = "ok" /\ ~PartAbsent(d) /\ ~HasExactMatch(d))

\* the Fetcher produced a record from an exact match at index 1, and the
\* earlier Fetcher produces the same one
C19_Witness ==
  \E p \in Procs :
    /\ upstream[p].status = "ok"
    /\ HasExactMatch(upstream[p].data)
    /\ IsDef(weatherData[p])
    /\ Val(weatherData[p]).precipitation = Def(PrecipAt(1))
    /\ IsDef(fetchWeatherData_strict(upstream[p], 0))
====
